---------------------------- MODULE Spec2Model ----------------------------
(***************************************************************************)
(* Model of routing/views.py (OptimalFuelRouteView.post): one POST request *)
(* is followed from parsing to its response.                               *)
(*                                                                         *)
(* Geometry.  All coordinates of a run lie on one meridian, so a           *)
(* coordinate is an integer number of miles along it and                   *)
(* geodesic(a, b).miles is |a - b|.  The KD-tree radius of the code is     *)
(* deviation_limit / 69.0 degrees; on a meridian a degree is 69 miles in   *)
(* the code's own approximation, so the radius query is |a - b| <= 3.      *)
(*                                                                         *)
(* Numbers.  Python floats are modelled by exact rationals [n, d] in       *)
(* lowest terms (d > 0); round(x, 2) rounds to hundredths, half to even.   *)
(*                                                                         *)
(* Station attributes that no computation reads (name, address, city,      *)
(* state, rack_id) are left out of the station records.                    *)
(***************************************************************************)
EXTENDS Integers, Sequences, FiniteSets, TLC

(***************************************************************************)
(* Bounds of the model.                                                    *)
(***************************************************************************)
\* rows in the FuelStation table
MaxStations == 2
\* number of "+= 25" steps of buffer_range the model follows
MaxGrowth == 21

(***************************************************************************)
(* Program constants.                                                      *)
(***************************************************************************)
truck_range == 500
fuel_efficiency == 10
InitialBuffer == 25
BufferStep == 25
InnerMargin == 25
deviation_limit == 3

(***************************************************************************)
(* Exact rational arithmetic standing for the float arithmetic.            *)
(***************************************************************************)
Abs(x) == IF x < 0 THEN -x ELSE x

RECURSIVE Gcd(_, _)
Gcd(a, b) == IF b = 0 THEN a ELSE Gcd(b, a % b)

Rat(n, d) ==
    LET g == Gcd(Abs(n), Abs(d))
        s == IF d < 0 THEN -1 ELSE 1
    IN  [n |-> s * (n \div g), d |-> s * (d \div g)]

RatInt(k) == [n |-> k, d |-> 1]

RatAdd(a, b) ==
    LET g == Gcd(a.d, b.d)
        l == (a.d \div g) * b.d
    IN  Rat(a.n * (l \div a.d) + b.n * (l \div b.d), l)

RatSub(a, b) == RatAdd(a, [n |-> -b.n, d |-> b.d])

\* cross-cancel before multiplying, so that intermediate products stay small
RatMul(a, b) ==
    LET g1 == Gcd(Abs(a.n), b.d)
        g2 == Gcd(Abs(b.n), a.d)
        h1 == IF g1 = 0 THEN 1 ELSE g1
        h2 == IF g2 = 0 THEN 1 ELSE g2
    IN  Rat((a.n \div h1) * (b.n \div h2), (a.d \div h2) * (b.d \div h1))

RatDiv(a, b) == RatMul(a, Rat(b.d, b.n))

\* a <= k for an integer k
RatLeqInt(a, k) == a.n <= k * a.d

\* a > k for an integer k
RatGtInt(a, k) == a.n > k * a.d

\* round(x, 2): the nearest multiple of 1/100, a tie going to the even one
Round2(a) ==
    LET num  == a.n * 100
        q    == num \div a.d
        r    == num % a.d
        cents == IF 2 * r > a.d THEN q + 1
                 ELSE IF 2 * r < a.d THEN q
                 ELSE IF q % 2 = 0 THEN q ELSE q + 1
    IN  Rat(cents, 100)

\* value / 1609.34, the conversion of metres to miles
MetersToMiles(value) == Rat(value * 100, 160934)

(***************************************************************************)
(* Geometry on the meridian.                                               *)
(***************************************************************************)
Geodesic(a, b) == Abs(a - b)

(***************************************************************************)
(* Inputs: the request, the Directions answer, the FuelStation table.      *)
(***************************************************************************)
StartCoords == {0}
\* route points the Directions polyline may pass through, besides the finish
PathCoords == {25, 50, 475, 950}
StationCoords == {25, 475, 950}
Prices == {2, 4}
StopIds == {1, 2}

Absent    == [kind |-> "absent",    val |-> 0]
Malformed == [kind |-> "malformed", val |-> 0]
Empty     == [kind |-> "empty",     val |-> 0]
Coord(c)  == [kind |-> "coord",     val |-> c]

\* request.data: each field is absent, a string literal_eval rejects, a
\* literal of a falsy value such as "()" or "None", or a coordinate literal
Requests ==
    [start_location  : {Absent, Malformed, Empty} \cup {Coord(c) : c \in StartCoords},
     finish_location : {Absent, Malformed, Empty, Coord(450), Coord(1200)}]

\* a FuelStation row
StationRows == [id : StopIds, pos : StationCoords, price : Prices]

\* the FuelStation table, in the order the queryset returns its rows
Catalogs == UNION {[1..n -> StationRows] : n \in 0..MaxStations}

\* legs[0].distance.value, in metres, that Directions may report for a route
\* to the finish: 450 miles; a little under 500 miles, exactly 500 miles, one
\* metre more; 1200 miles
RouteValues(finish) ==
    IF finish = 450 THEN {724203, 800000, 804670, 804671} ELSE {1931208}

RECURSIVE SetToSortedSeq(_)
SetToSortedSeq(S) ==
    IF S = {} THEN <<>>
    ELSE LET m == CHOOSE x \in S : \A y \in S : x <= y
         IN  <<m>> \o SetToSortedSeq(S \ {m})

\* decode_polyline(points)[1:]: the route's points in travel order, the start
\* dropped, the finish last
Paths(start, finish) ==
    {SetToSortedSeq(P \cup {finish}) :
        P \in SUBSET {c \in PathCoords : start < c /\ c < finish}}

NoRoute    == [kind |-> "none",  path |-> <<>>, value |-> 0]
RouteError == [kind |-> "error", path |-> <<>>, value |-> 0]

\* what gmaps.directions may answer: an exception, no route, or a route
DirectionsAnswers(start, finish) ==
    {NoRoute, RouteError} \cup
    {[kind |-> "route", path |-> p, value |-> v] :
        p \in Paths(start, finish), v \in RouteValues(finish)}

\* the road distance in metres the Distance Matrix reports from a to b: the
\* straight distance rounded up to whole 50-mile stretches of 80467 m
RoadMeters(a, b) == 80467 * ((Geodesic(a, b) + 49) \div 50)

(***************************************************************************)
(* The corridor filter (views.py 76-115).                                  *)
(***************************************************************************)
\* a radius query that returns every row
QueryEveryPoint(stations, point) == [i \in 1..Len(stations) |-> i]

\* station_tree.query_ball_point(path_point, deviation_limit_degrees): the
\* rows within the radius, by ascending index
QueryBallPoint(stations, point) ==
    SelectSeq([i \in 1..Len(stations) |-> i],
              LAMBDA i : Geodesic(stations[i].pos, point) <= deviation_limit)

HasId(list, id) == \E k \in 1..Len(list) : list[k].id = id

\* the inner loop over indices: a station enters nearby_stations unless its
\* stop_id is already a key
RECURSIVE AddMatches(_, _, _, _)
AddMatches(stations, indices, k, acc) ==
    IF k > Len(indices) THEN acc
    ELSE LET station == stations[indices[k]]
         IN  AddMatches(stations, indices, k + 1,
                        IF HasId(acc, station.id) THEN acc
                        ELSE Append(acc, station))

\* the outer loop over the route points; the result is
\* list(nearby_stations.values()), in insertion order
RECURSIVE NearbyStations(_, _, _, _)
NearbyStations(stations, path, i, acc) ==
    IF i > Len(path) THEN acc
    ELSE NearbyStations(stations, path, i + 1,
                        AddMatches(stations, QueryBallPoint(stations, path[i]), 1, acc))

\* list.sort(key = geodesic(start_location, station)): a stable sort
RECURSIVE InsertByDistance(_, _, _)
InsertByDistance(sorted, s, start) ==
    IF sorted = <<>> THEN <<s>>
    ELSE IF Geodesic(start, s.pos) < Geodesic(start, Head(sorted).pos)
         THEN <<s>> \o sorted
         ELSE <<Head(sorted)>> \o InsertByDistance(Tail(sorted), s, start)

RECURSIVE SortByDistance(_, _)
SortByDistance(list, start) ==
    IF list = <<>> THEN <<>>
    ELSE InsertByDistance(SortByDistance(SubSeq(list, 1, Len(list) - 1), start),
                          list[Len(list)], start)

RouteFilter(stations, path, start) ==
    SortByDistance(NearbyStations(stations, path, 1, <<>>), start)

(***************************************************************************)
(* One pass of the while loop (views.py 123-183).                          *)
(***************************************************************************)
\* the scan of decoded_path: traveled_distance accumulates from
\* current_position through the route points from the first one on; a point
\* whose traveled distance is in the window is a candidate; the scan stops
\* after the first point beyond truck_range
RECURSIVE ScanPath(_, _, _, _, _, _)
ScanPath(path, i, last_point, traveled, buffer, acc) ==
    IF i > Len(path) THEN acc
    ELSE LET t    == traveled + Geodesic(last_point, path[i])
             acc2 == IF (truck_range - buffer) <= t /\ t <= (truck_range - InnerMargin)
                     THEN Append(acc, path[i]) ELSE acc
         IN  IF t > truck_range THEN acc2
             ELSE ScanPath(path, i + 1, path[i], t, buffer, acc2)

CandidatePoints(path, current, buffer) == ScanPath(path, 1, current, 0, buffer, <<>>)

\* the stations within buffer_range of some candidate point
StationsInBuffer(list, candidates, buffer) ==
    SelectSeq(list, LAMBDA s :
        \E k \in 1..Len(candidates) : Geodesic(s.pos, candidates[k]) <= buffer)

\* a minimum that keeps the last of the cheapest
LastCheapestStation(list) ==
    list[CHOOSE k \in 1..Len(list) :
            /\ \A j \in 1..Len(list) : list[k].price <= list[j].price
            /\ \A j \in (k + 1)..Len(list) : list[j].price > list[k].price]

\* min(stations_in_buffer, key = price_per_gallon): the first of the cheapest
CheapestStation(list) ==
    list[CHOOSE k \in 1..Len(list) :
            /\ \A j \in 1..Len(list) : list[k].price <= list[j].price
            /\ \A j \in 1..(k - 1) : list[j].price > list[k].price]

\* a selection that removes nothing from the list
RemoveNothing(list, position) == list

\* the stations kept after a selection: those not at the selected position
RemoveSelected(list, position) ==
    SelectSeq(list, LAMBDA s : Geodesic(position, s.pos) > 0)

(***************************************************************************)
(* Prices and costs (views.py 57-66, 187-224).                             *)
(***************************************************************************)
RECURSIVE SumPrices(_)
SumPrices(list) ==
    IF list = <<>> THEN 0 ELSE Head(list).price + SumPrices(Tail(list))

\* sum(prices) / len(stations)
AveragePrice(list) == Rat(SumPrices(list), Len(list))

\* the short-route test with < in place of <=
StrictlyWithinRange(total) == total.n < truck_range * total.d

\* the short route: total_distance <= truck_range
WithinRange(total) == RatLeqInt(total, truck_range)

\* (total_distance / fuel_efficiency) * average_price
DirectCost(total, stations) ==
    RatMul(RatDiv(total, RatInt(fuel_efficiency)), AveragePrice(stations))

\* locations: the start, the selected stops in order, the finish
Locations(start, stops, finish) ==
    <<start>> \o [k \in 1..Len(stops) |-> stops[k].pos] \o <<finish>>

\* the Distance Matrix answer flattened row by row: origins are
\* locations[:-1], destinations locations[1:], every origin against every
\* destination, each value / 1609.34
Distances(locations) ==
    LET m == Len(locations) - 1
    IN  [k \in 1..(m * m) |->
            MetersToMiles(RoadMeters(locations[((k - 1) \div m) + 1],
                                     locations[((k - 1) % m) + 2]))]

\* the distance the k-th entry of fuel_costs is computed from: distances[k]
\* (0-based distances[k - 1]) for each stop, distances[-1] for the last entry
LegDistance(dists, stops, k) ==
    IF k <= Len(stops) THEN dists[k] ELSE dists[Len(dists)]

\* the price the k-th entry of fuel_costs is computed from: the k-th stop's
\* price, the average price for the last entry
LegPrice(stops, average, k) ==
    IF k <= Len(stops) THEN RatInt(stops[k].price) ELSE average

\* fuel_costs: one entry per selected stop and one for the last leg
FuelCosts(dists, stops, average) ==
    [k \in 1..(Len(stops) + 1) |->
        RatMul(RatDiv(LegDistance(dists, stops, k), RatInt(fuel_efficiency)),
               LegPrice(stops, average, k))]

RECURSIVE RatSum(_)
RatSum(list) ==
    IF list = <<>> THEN RatInt(0) ELSE RatAdd(Head(list), RatSum(Tail(list)))

\* the average used for the last leg
FallbackAverage(stops, stations) ==
    IF stops /= <<>> THEN AveragePrice(stops) ELSE AveragePrice(stations)

(***************************************************************************)
(* State.                                                                  *)
(***************************************************************************)
VARIABLES
    catalog,              \* the FuelStation table
    pc,                   \* where the handler is
    request,              \* request.data
    start_location,
    finish_location,
    decoded_path,
    total_distance,
    nearby_stations_list,
    optimal_stations,
    current_position,
    last_position,
    remaining_distance,
    buffer_range,
    distances,
    fuel_costs,
    response,
    calls,                \* history: the collaborators called so far
    buffer_at_selection   \* history: buffer_range at each append to optimal_stations

routeVars == <<start_location, finish_location, decoded_path, total_distance>>
loopVars  == <<nearby_stations_list, optimal_stations, current_position,
               last_position, remaining_distance, buffer_range,
               buffer_at_selection>>
costVars  == <<distances, fuel_costs>>
viewVars  == <<pc, request, routeVars, loopVars, costVars, response, calls>>

\* fetch_coordinates_google (geocode_addresses.py 12-33)
VARIABLES
    f_pc,                 \* where the call is
    address,
    retries,
    attempt,
    fetch_result,         \* the value returned
    fetch_log             \* history: the geocode calls and the sleeps, in order

fetchVars == <<f_pc, address, retries, attempt, fetch_result, fetch_log>>

\* Command.handle (geocode_addresses.py 43-108)
VARIABLES
    im_pc,                \* where the command is
    file_exists,          \* os.path.exists(file_path)
    csv_rows,             \* the rows of the CSV file
    row_index,            \* the row the reader is at
    addresses_to_geocode, \* the rows queued, by their place in csv_rows
    future_to_data,       \* one future per queued row
    results,
    save_index,           \* the entry of results the last loop is at
    catalog_before,       \* history: the table when the transaction began
    geocode_lookups,      \* history: the lookups submitted
    reports               \* history: what was written for each queued row

importVars == <<im_pc, file_exists, csv_rows, row_index, addresses_to_geocode,
                future_to_data, results, save_index, catalog_before,
                geocode_lookups, reports>>

geoVars == <<fetchVars, importVars>>

vars == <<catalog, viewVars, geoVars>>

NoResponse == [status |-> 0, error |-> "", optimal_route |-> <<>>,
               has_route |-> FALSE, route_map_url |-> <<>>,
               total_cost |-> RatInt(0)]

\* an error answer that also carries the stops selected so far
PartialErrorResponse(code, message) ==
    [status |-> code, error |-> message, optimal_route |-> optimal_stations,
     has_route |-> FALSE, route_map_url |-> <<>>, total_cost |-> RatInt(0)]

\* Response({"error": message}, status = code)
ErrorResponse(code, message) ==
    [status |-> code, error |-> message, optimal_route |-> <<>>,
     has_route |-> FALSE, route_map_url |-> <<>>, total_cost |-> RatInt(0)]

\* Response({"route_map_url": ..., "optimal_route": ..., "total_cost": ...})
RouteResponse(url, stops, cost) ==
    [status |-> 200, error |-> "", optimal_route |-> stops,
     has_route |-> TRUE, route_map_url |-> url, total_cost |-> cost]

\* no request has arrived
ViewIdle ==
    /\ pc = "idle"
    /\ request = [start_location |-> Absent, finish_location |-> Absent]
    /\ start_location = 0
    /\ finish_location = 0
    /\ decoded_path = <<>>
    /\ total_distance = RatInt(0)
    /\ nearby_stations_list = <<>>
    /\ optimal_stations = <<>>
    /\ current_position = 0
    /\ last_position = 0
    /\ remaining_distance = RatInt(0)
    /\ buffer_range = InitialBuffer
    /\ distances = <<>>
    /\ fuel_costs = <<>>
    /\ response = NoResponse
    /\ calls = {}
    /\ buffer_at_selection = <<>>

NoCoordinates == [kind |-> "none", pos |-> 0]

\* fetch_coordinates_google is not running
FetchIdle ==
    /\ f_pc = "idle"
    /\ address = ""
    /\ retries = 0
    /\ attempt = 0
    /\ fetch_result = NoCoordinates
    /\ fetch_log = <<>>

\* the import command is not running
ImportIdle ==
    /\ im_pc = "idle"
    /\ file_exists = FALSE
    /\ csv_rows = <<>>
    /\ row_index = 0
    /\ addresses_to_geocode = <<>>
    /\ future_to_data = <<>>
    /\ results = <<>>
    /\ save_index = 0
    /\ catalog_before = <<>>
    /\ geocode_lookups = 0
    /\ reports = <<>>

Init ==
    /\ catalog \in Catalogs
    /\ ViewIdle
    /\ FetchIdle
    /\ ImportIdle

(***************************************************************************)
(* The handler, step by step.                                              *)
(***************************************************************************)
\* request.data[field] raises KeyError on an absent field and
\* ast.literal_eval raises on a malformed one
ParseRaises(req) ==
    \/ req.start_location.kind \in {"absent", "malformed"}
    \/ req.finish_location.kind \in {"absent", "malformed"}

\* not start_location or not finish_location
FieldsFalsy(req) ==
    \/ req.start_location.kind = "empty"
    \/ req.finish_location.kind = "empty"

\* the status of the missing-fields answer
RequiredFieldsStatus == 400
\* the status of the empty-catalog answer
NoStationsStatus == 400
\* the status of the no-route answer
NoRouteStatus == 404
\* the status the except clause answers with
ExceptionStatus == 500

\* lines 22-36: the request arrives and is parsed
Post ==
    /\ pc = "idle"
    /\ \E req \in Requests :
        /\ request' = req
        /\ IF ParseRaises(req)
           THEN /\ pc' = "done"
                /\ response' = ErrorResponse(ExceptionStatus, "exception")
                /\ UNCHANGED <<start_location, finish_location>>
           ELSE IF FieldsFalsy(req)
           THEN /\ pc' = "done"
                /\ response' = ErrorResponse(RequiredFieldsStatus,
                                   "start_location and finish_location are required fields.")
                /\ UNCHANGED <<start_location, finish_location>>
           ELSE /\ pc' = "directions"
                /\ start_location' = req.start_location.val
                /\ finish_location' = req.finish_location.val
                /\ UNCHANGED response
    /\ UNCHANGED <<catalog, decoded_path, total_distance, loopVars, costVars, calls>>
    /\ UNCHANGED geoVars

\* lines 38-50: the Directions call and what is read from its answer
Directions ==
    /\ pc = "directions"
    /\ calls' = calls \cup {"directions"}
    /\ \E answer \in DirectionsAnswers(start_location, finish_location) :
        IF answer.kind = "error"
        THEN /\ pc' = "done"
             /\ response' = ErrorResponse(ExceptionStatus, "exception")
             /\ UNCHANGED <<decoded_path, total_distance>>
        ELSE IF answer.kind = "none"
        THEN /\ pc' = "done"
             /\ response' = ErrorResponse(NoRouteStatus, "No valid route found.")
             /\ UNCHANGED <<decoded_path, total_distance>>
        ELSE /\ pc' = "stations"
             /\ decoded_path' = answer.path
             /\ total_distance' = MetersToMiles(answer.value)
             /\ UNCHANGED response
    /\ UNCHANGED <<catalog, request, start_location, finish_location, loopVars, costVars>>
    /\ UNCHANGED geoVars

\* lines 52-121: the catalog is read; an empty one and a short route are
\* answered at once; otherwise the corridor filter runs and the loop's
\* variables are set
LoadStations ==
    /\ pc = "stations"
    /\ calls' = calls \cup {"stations"}
    /\ IF catalog = <<>>
       THEN /\ pc' = "done"
            /\ response' = ErrorResponse(NoStationsStatus, "No fuel stations available")
            /\ UNCHANGED loopVars
       ELSE IF WithinRange(total_distance)
       THEN /\ pc' = "done"
            /\ response' = RouteResponse(<<start_location, finish_location>>, <<>>,
                                         DirectCost(total_distance, catalog))
            /\ UNCHANGED loopVars
       ELSE /\ pc' = "loop"
            /\ nearby_stations_list' = RouteFilter(catalog, decoded_path, start_location)
            /\ optimal_stations' = <<>>
            /\ current_position' = start_location
            /\ last_position' = start_location
            /\ remaining_distance' = total_distance
            /\ UNCHANGED <<response, buffer_range, buffer_at_selection>>
    /\ UNCHANGED <<catalog, request, routeVars, costVars>>
    /\ UNCHANGED geoVars

\* the while condition: remaining_distance > truck_range - buffer_range
LoopContinues == RatGtInt(remaining_distance, truck_range - buffer_range)

candidate_points == CandidatePoints(decoded_path, current_position, buffer_range)

stations_in_buffer ==
    StationsInBuffer(nearby_stations_list, candidate_points, buffer_range)

\* a retry that reduces buffer_range
ShrinkBuffer ==
    /\ pc = "loop"
    /\ LoopContinues
    /\ ~(candidate_points /= <<>> /\ stations_in_buffer /= <<>>)
    /\ buffer_range < InitialBuffer + BufferStep * MaxGrowth
    /\ buffer_range' = buffer_range - BufferStep
    /\ UNCHANGED <<catalog, pc, request, routeVars, nearby_stations_list,
                   optimal_stations, current_position, last_position,
                   remaining_distance, buffer_at_selection, costVars,
                   response, calls>>
    /\ UNCHANGED geoVars

\* lines 146-150 and 159-163: nothing found, buffer_range += 25 and the loop
\* goes round again.  The code sets no limit; the model follows MaxGrowth
\* of these steps.
GrowBuffer ==
    /\ pc = "loop"
    /\ LoopContinues
    /\ ~(candidate_points /= <<>> /\ stations_in_buffer /= <<>>)
    /\ buffer_range < InitialBuffer + BufferStep * MaxGrowth
    /\ buffer_range' = buffer_range + BufferStep
    /\ UNCHANGED <<catalog, pc, request, routeVars, nearby_stations_list,
                   optimal_stations, current_position, last_position,
                   remaining_distance, buffer_at_selection, costVars,
                   response, calls>>
    /\ UNCHANGED geoVars

\* lines 166-183: the cheapest station in the buffer is appended and becomes
\* the current position
SelectStop ==
    /\ pc = "loop"
    /\ LoopContinues
    /\ candidate_points /= <<>>
    /\ stations_in_buffer /= <<>>
    /\ LET cheapest_station == CheapestStation(stations_in_buffer)
       IN  /\ optimal_stations' = Append(optimal_stations, cheapest_station)
           /\ current_position' = cheapest_station.pos
           /\ remaining_distance' =
                  RatSub(remaining_distance,
                         RatInt(Geodesic(last_position, cheapest_station.pos)))
           /\ nearby_stations_list' =
                  RemoveSelected(nearby_stations_list, cheapest_station.pos)
           /\ last_position' = cheapest_station.pos
           /\ buffer_at_selection' = Append(buffer_at_selection, buffer_range)
    /\ UNCHANGED <<catalog, pc, request, routeVars, buffer_range, costVars,
                   response, calls>>
    /\ UNCHANGED geoVars

\* the while condition is false: the loop is left
LoopExit ==
    /\ pc = "loop"
    /\ ~LoopContinues
    /\ pc' = "matrix"
    /\ UNCHANGED <<catalog, request, routeVars, loopVars, costVars, response, calls>>
    /\ UNCHANGED geoVars

\* lines 187-241: the Distance Matrix call, the costs and the answer; a
\* failed call or an answer without the expected keys raises, and the except
\* clause answers
DistanceMatrix ==
    /\ pc = "matrix"
    /\ calls' = calls \cup {"matrix"}
    /\ pc' = "done"
    /\ \E ok \in BOOLEAN :
        IF ok
        THEN LET locations == Locations(start_location, optimal_stations, finish_location)
                 dists == Distances(locations)
                 costs == FuelCosts(dists, optimal_stations,
                                    FallbackAverage(optimal_stations, catalog))
             IN  /\ distances' = dists
                 /\ fuel_costs' = costs
                 /\ response' = RouteResponse(locations, optimal_stations,
                                              Round2(RatSum(costs)))
        ELSE /\ response' = ErrorResponse(ExceptionStatus, "exception")
             /\ UNCHANGED costVars
    /\ UNCHANGED <<catalog, request, routeVars, loopVars>>
    /\ UNCHANGED geoVars

Next ==
    \/ Post
    \/ Directions
    \/ LoadStations
    \/ GrowBuffer
    \/ SelectStop
    \/ LoopExit
    \/ DistanceMatrix

Spec == Init /\ [][Next]_vars

(***************************************************************************)
(* Properties.                                                             *)
(***************************************************************************)
\* the position the k-th stop was selected at: the start for the first stop,
\* the previous stop otherwise
SelectedFrom(k) ==
    IF k = 1 THEN start_location ELSE optimal_stations[k - 1].pos

\* the handler has read a non-empty catalog for a route Directions found
RouteAndStations == "stations" \in calls /\ catalog /= <<>>

\* C1 (trivial range): once a route is found and a non-empty catalog read,
\* a total distance <= truck_range means the handler has answered 200 with
\* an empty optimal_route and total_cost = (total_distance /
\* fuel_efficiency) * mean(price over the whole catalog), and the selection
\* loop was never entered: nothing filtered, nothing selected, buffer_range
\* untouched, no Distance Matrix call.
C1_TrivialRange ==
    (RouteAndStations /\ total_distance.n <= truck_range * total_distance.d)
    => /\ pc = "done"
       /\ response.status = 200
       /\ response.has_route
       /\ response.optimal_route = <<>>
       /\ response.total_cost =
              Rat(total_distance.n * SumPrices(catalog),
                  total_distance.d * fuel_efficiency * Len(catalog))
       /\ optimal_stations = <<>>
       /\ nearby_stations_list = <<>>
       /\ buffer_range = InitialBuffer
       /\ "matrix" \notin calls

\* C1 witness: a route of exactly truck_range miles over a catalog of two
\* differently priced stations has been answered.
C1_Witness ==
    /\ RouteAndStations
    /\ total_distance = RatInt(truck_range)
    /\ Len(catalog) = 2
    /\ catalog[1].price /= catalog[2].price
    /\ response.has_route

\* C2 (reachability): every selected stop is at most truck_range miles from
\* the position it was selected at.
C2_StopsReachable ==
    \A k \in 1..Len(optimal_stations) :
        Geodesic(SelectedFrom(k), optimal_stations[k].pos) <= truck_range

\* C3 (window correctness): every selected stop's distance from the position
\* it was selected at lies in [truck_range - buffer_range at selection,
\* truck_range - 25].
C3_WindowCorrect ==
    \A k \in 1..Len(optimal_stations) :
        LET d == Geodesic(SelectedFrom(k), optimal_stations[k].pos)
        IN  /\ truck_range - buffer_at_selection[k] <= d
            /\ d <= truck_range - InnerMargin

\* C4 (finish in range): when the loop has ended with at least one stop, the
\* finish is at most truck_range miles from the last stop.
C4_FinishInRange ==
    (pc \in {"matrix", "done"} /\ optimal_stations /= <<>>)
    => Geodesic(optimal_stations[Len(optimal_stations)].pos, finish_location)
           <= truck_range

\* C5 (no repeats): no stop_id occurs twice among the selected stops, nor in
\* the optimal_route of the answer.
C5_NoRepeats ==
    /\ \A i, j \in 1..Len(optimal_stations) :
           i < j => optimal_stations[i].id /= optimal_stations[j].id
    /\ \A i, j \in 1..Len(response.optimal_route) :
           i < j => response.optimal_route[i].id /= response.optimal_route[j].id

\* C5 witness: two stops have been selected.
C5_Witness == Len(optimal_stations) >= 2

\* the selection step finds nothing: no candidate point, or no station
\* within buffer_range of one
NothingFeasible == candidate_points = <<>> \/ stations_in_buffer = <<>>

\* C6 (the search fails cleanly): a pass of the loop that finds nothing when
\* buffer_range + 25 > truck_range ends the search with a not-found answer
\* instead of another pass.
C6_SearchFailsCleanly ==
    [][(pc = "loop" /\ LoopContinues /\ NothingFeasible
            /\ buffer_range + BufferStep > truck_range)
       => (pc' = "done" /\ response'.status = 404)]_vars

\* the answer of a request whose stops were priced
Priced == "matrix" \in calls /\ response.has_route

\* the road distance in miles between waypoint k and waypoint k + 1 of the
\* answered route
ConsecutiveLeg(k) ==
    MetersToMiles(RoadMeters(response.route_map_url[k], response.route_map_url[k + 1]))

\* C7 (consecutive legs): the cost computation uses one distance per pair of
\* consecutive waypoints, n + 1 in all, and the distance of leg k is the
\* Distance Matrix distance from waypoint k to waypoint k + 1.
C7_ConsecutiveLegs ==
    Priced =>
        /\ Len(fuel_costs) = Len(optimal_stations) + 1
        /\ \A k \in 1..Len(fuel_costs) :
               LegDistance(distances, optimal_stations, k) = ConsecutiveLeg(k)

\* the cost of leg k as the specification defines it: a leg leaving a stop at
\* the price of that stop, the last leg at the fallback average
LegCostBySpec(k) ==
    RatMul(RatDiv(ConsecutiveLeg(k), RatInt(fuel_efficiency)),
           IF k = Len(optimal_stations) + 1
           THEN FallbackAverage(optimal_stations, catalog)
           ELSE RatInt(optimal_stations[k - 1].price))

\* C8 (cost additivity): with stops selected, total_cost is the sum of the
\* legs' costs rounded to 2 decimals; a leg that leaves a stop costs (leg
\* distance / fuel_efficiency) x that stop's price, the last leg (leg
\* distance / fuel_efficiency) x the fallback average.  The first leg leaves
\* the start, where no price is defined, and is left unconstrained.
C8_CostAdditivity ==
    (Priced /\ optimal_stations /= <<>>) =>
        /\ response.total_cost = Round2(RatSum(fuel_costs))
        /\ Len(fuel_costs) = Len(optimal_stations) + 1
        /\ \A k \in 2..Len(fuel_costs) : fuel_costs[k] = LegCostBySpec(k)

\* a field of the request is absent
FieldAbsent ==
    \/ request.start_location.kind = "absent"
    \/ request.finish_location.kind = "absent"

\* C9 (missing fields): a request without start_location or finish_location
\* is answered with the client error 400, and neither Directions nor the
\* station table is consulted for it.
C9_MissingFieldIsClientError ==
    (pc = "done" /\ FieldAbsent) => (response.status = 400 /\ calls = {})

\* C10 (empty catalog): with an empty station table, a request whose route
\* was found is answered not-found (404) "no stations available", whatever
\* the route's length, and nothing is selected or priced.
C10_EmptyCatalogNotFound ==
    (catalog = <<>> /\ "stations" \in calls) =>
        /\ pc = "done"
        /\ response.status = 404
        /\ response.error = "No fuel stations available"
        /\ ~response.has_route
        /\ optimal_stations = <<>>
        /\ "matrix" \notin calls

\* C11 (no partial failure): an answer that is not 200 carries an error
\* and no stop list, route URL or cost, also when the failure comes after
\* stops were selected; an answer that carries optimal_route is a 200 with
\* route_map_url and total_cost and no error.
C11_NoPartialFailure ==
    (pc = "done") =>
        IF response.status = 200
        THEN /\ response.has_route
             /\ response.error = ""
             /\ Len(response.route_map_url) >= 2
        ELSE /\ ~response.has_route
             /\ response.error /= ""
             /\ response.optimal_route = <<>>
             /\ response.route_map_url = <<>>
             /\ response.total_cost = RatInt(0)

\* C11 witness: the Distance Matrix step failed after a stop was selected.
C11_Witness ==
    /\ pc = "done"
    /\ "matrix" \in calls
    /\ response.status = 500
    /\ optimal_stations /= <<>>

\* C12 (buffer reset): when a stop is selected and the search goes on, the
\* next step starts with the original buffer_range.
C12_BufferReset ==
    [][(pc = "loop" /\ Len(optimal_stations') = Len(optimal_stations) + 1
            /\ LoopContinues')
       => buffer_range' = InitialBuffer]_vars

BaseOrder == RouteFilter(catalog, decoded_path, start_location)

\* the place of station s in a list that holds it
IndexIn(list, s) == CHOOSE k \in 1..Len(list) : list[k] = s

\* C14 (forward only): the selected stops are in strictly increasing base
\* order, and after a selection the remaining candidates are the stations
\* strictly after the selected one in the base order.
C14_ForwardOnly ==
    (pc \in {"loop", "matrix", "done"} /\ optimal_stations /= <<>>) =>
        /\ \A i, j \in 1..Len(optimal_stations) :
               i < j => IndexIn(BaseOrder, optimal_stations[i])
                            < IndexIn(BaseOrder, optimal_stations[j])
        /\ nearby_stations_list =
               SubSeq(BaseOrder,
                      IndexIn(BaseOrder, optimal_stations[Len(optimal_stations)]) + 1,
                      Len(BaseOrder))

\* C15 (cheapest, earliest): the station a selection step appends is one of
\* the step's stations_in_buffer, none of them is cheaper, and none of the
\* equally cheap ones is earlier in the base order.
C15_CheapestEarliest ==
    [][(pc = "loop" /\ Len(optimal_stations') = Len(optimal_stations) + 1) =>
          LET chosen == optimal_stations'[Len(optimal_stations')]
          IN  /\ \E k \in 1..Len(stations_in_buffer) : stations_in_buffer[k] = chosen
              /\ \A k \in 1..Len(stations_in_buffer) :
                     /\ chosen.price <= stations_in_buffer[k].price
                     /\ stations_in_buffer[k].price = chosen.price =>
                            IndexIn(BaseOrder, chosen)
                                <= IndexIn(BaseOrder, stations_in_buffer[k])]_vars

\* C15 witness: a first stop was selected while another station of the same
\* price and position, with another stop_id, was in the corridor.
C15_Witness ==
    /\ Len(optimal_stations) = 1
    /\ \E k \in 1..Len(BaseOrder) :
           /\ BaseOrder[k].id /= optimal_stations[1].id
           /\ BaseOrder[k].pos = optimal_stations[1].pos
           /\ BaseOrder[k].price = optimal_stations[1].price

\* row i of the catalog is matched by the radius query around route point p
Matched(i, p) == Geodesic(catalog[i].pos, decoded_path[p]) <= deviation_limit

\* the corridor filter has run and nothing was selected yet
Filtered == pc = "loop" /\ optimal_stations = <<>>

\* C16 (corridor filter): the filter's output holds every stop_id at most
\* once; each entry is a catalog row matched by the radius query around
\* some route point, and is the first row of its stop_id so matched (by
\* route point, then by row); every matched stop_id is there; the entries
\* are in ascending distance from the start; with no match the output is
\* empty and the handler goes on without an error.
C16_CorridorFilter ==
    Filtered =>
        LET L == nearby_stations_list
            Pairs == {pi \in (1..Len(decoded_path)) \X (1..Len(catalog)) :
                         Matched(pi[2], pi[1])}
        IN  /\ \A a, b \in 1..Len(L) : a < b => L[a].id /= L[b].id
            /\ \A a \in 1..Len(L) :
                   \E pi \in Pairs :
                       /\ catalog[pi[2]] = L[a]
                       /\ \A qi \in Pairs :
                              catalog[qi[2]].id = L[a].id =>
                                  \/ pi[1] < qi[1]
                                  \/ pi[1] = qi[1] /\ pi[2] <= qi[2]
            /\ \A pi \in Pairs : \E a \in 1..Len(L) : L[a].id = catalog[pi[2]].id
            /\ \A a, b \in 1..Len(L) :
                   a < b => Geodesic(start_location, L[a].pos)
                                <= Geodesic(start_location, L[b].pos)
            /\ Pairs = {} => (L = <<>> /\ response = NoResponse)

\* C16 witness: the filter kept one row and dropped another of the same
\* stop_id, and dropped a row that no route point is near.
C16_Witness ==
    /\ Filtered
    /\ Len(nearby_stations_list) = 1
    /\ Len(catalog) = 2
    /\ catalog[1].id = catalog[2].id

(***************************************************************************)
(* fetch_coordinates_google (geocode_addresses.py 12-33).                  *)
(***************************************************************************)
\* the largest value of the retries parameter the model calls with
MaxRetries == 3

FetchAddresses == {"Pilot, 1 Main St, Tulsa, OK, USA", "Loves, 2 Oak Ave, Reno, NV, USA"}

\* the coordinates a lookup may find; an address in the USA has neither
\* latitude nor longitude 0
GeoCoords == {475, 950}

\* what one gmaps.geocode call may do: return a first result with a
\* location, return an empty list, or raise
GeocodeAnswers ==
    {[kind |-> "found", pos |-> c] : c \in GeoCoords}
    \cup {[kind |-> "empty", pos |-> 0], [kind |-> "raise", pos |-> 0]}

Sleep == [kind |-> "sleep", pos |-> 0]

\* while attempt < retries
MoreAttempts(a, r) == a < r

\* a wait after every failed attempt, the last one too
SleepsAlways(a, r) == TRUE

\* if attempt < retries: time.sleep(delay)
SleepsAfter(a, r) == a < r

FetchInit ==
    /\ catalog = <<>>
    /\ ViewIdle
    /\ ImportIdle
    /\ f_pc = "loop"
    /\ address \in FetchAddresses
    /\ retries \in 0..MaxRetries
    /\ attempt = 0
    /\ fetch_result = NoCoordinates
    /\ fetch_log = <<>>

\* lines 15-30: one pass of the while loop up to the sleep: the geocode
\* call, the return of a non-empty result, or attempt += 1
GeocodeAttempt ==
    /\ f_pc = "loop"
    /\ MoreAttempts(attempt, retries)
    /\ \E answer \in GeocodeAnswers :
        /\ fetch_log' = Append(fetch_log, answer)
        /\ IF answer.kind = "found"
           THEN /\ fetch_result' = [kind |-> "coords", pos |-> answer.pos]
                /\ f_pc' = "returned"
                /\ UNCHANGED attempt
           ELSE /\ attempt' = attempt + 1
                /\ f_pc' = IF SleepsAfter(attempt + 1, retries) THEN "sleep" ELSE "loop"
                /\ UNCHANGED fetch_result
    /\ UNCHANGED <<catalog, viewVars, importVars, address, retries>>

\* line 30: time.sleep(delay)
FetchSleep ==
    /\ f_pc = "sleep"
    /\ fetch_log' = Append(fetch_log, Sleep)
    /\ f_pc' = "loop"
    /\ UNCHANGED <<catalog, viewVars, importVars, address, retries, attempt,
                   fetch_result>>

\* lines 32-33: the loop is over, return None, None
FetchGiveUp ==
    /\ f_pc = "loop"
    /\ ~MoreAttempts(attempt, retries)
    /\ fetch_result' = NoCoordinates
    /\ f_pc' = "returned"
    /\ UNCHANGED <<catalog, viewVars, importVars, address, retries, attempt,
                   fetch_log>>

FetchNext ==
    \/ GeocodeAttempt
    \/ FetchSleep
    \/ FetchGiveUp

SpecFetch == FetchInit /\ [][FetchNext]_vars

\* the geocode calls made so far
GeocodeCalls == {k \in 1..Len(fetch_log) : fetch_log[k].kind /= "sleep"}

\* C17 (bounded retries): fetch_coordinates_google makes at most retries
\* geocode calls and, until it has returned, can always take its next step
\* (no exception leaves it); a non-empty result is the last call and its
\* coordinates are returned; (None, None) is returned only after retries
\* calls that all came back empty or raised; a sleep comes only between two
\* calls, one between any two, never after the last call.
C17_BoundedRetries ==
    /\ Cardinality(GeocodeCalls) <= retries
    /\ attempt <= retries
    /\ f_pc \in {"loop", "sleep"} => ENABLED FetchNext
    /\ \A k \in 1..Len(fetch_log) :
           /\ fetch_log[k].kind = "found" =>
                  /\ k = Len(fetch_log)
                  /\ f_pc = "returned"
                  /\ fetch_result = [kind |-> "coords", pos |-> fetch_log[k].pos]
           /\ fetch_log[k].kind = "sleep" =>
                  /\ k > 1
                  /\ fetch_log[k - 1].kind \in {"empty", "raise"}
                  /\ f_pc = "returned" => k < Len(fetch_log)
           /\ (k > 1 /\ fetch_log[k].kind /= "sleep") => fetch_log[k - 1].kind = "sleep"
    /\ (f_pc = "returned" /\ fetch_result.kind = "none") =>
           /\ Cardinality(GeocodeCalls) = retries
           /\ \A k \in GeocodeCalls : fetch_log[k].kind \in {"empty", "raise"}
    /\ (f_pc = "returned" /\ fetch_result.kind = "coords") =>
           (fetch_log /= <<>> /\ fetch_log[Len(fetch_log)].kind = "found")

\* C17 witness: three attempts, an empty one and raising ones, with the two
\* sleeps between them, ended in (None, None).
C17_Witness ==
    /\ f_pc = "returned"
    /\ fetch_result.kind = "none"
    /\ retries = 3
    /\ Len(fetch_log) = 5
    /\ fetch_log[1].kind = "raise"
    /\ fetch_log[3].kind = "empty"

(***************************************************************************)
(* Command.handle (geocode_addresses.py 43-108).  One lookup is one call   *)
(* of fetch_coordinates_google with its default retries; by C17 it ends    *)
(* with coordinates or with (None, None) and never raises, so here a       *)
(* lookup is a step with one of these two outcomes.                        *)
(***************************************************************************)
\* rows in the CSV file
MaxCsvRows == 2

\* max_workers of the executor
max_concurrent_requests == 50

CsvIds == {1, 3}
CsvPrices == {3}

\* a CSV row: its "OPIS Truckstop ID", whether float() accepts its "Retail
\* Price" and the price, whether int() accepts its "Rack ID"
CsvRows == [id : CsvIds, price_ok : BOOLEAN, price : CsvPrices, rack_ok : BOOLEAN]

CsvFiles == UNION {[1..n -> CsvRows] : n \in 0..MaxCsvRows}

UniqueIds(stations) ==
    \A i, j \in 1..Len(stations) : i < j => stations[i].id /= stations[j].id

\* the table before an import: no stop_id twice
ImportCatalogs ==
    {c \in UNION {[1..n -> [id : StopIds, pos : {475}, price : {2}]] :
                      n \in 0..MaxStations} : UniqueIds(c)}

\* what a lookup returns: (None, None) or coordinates
LookupOutcomes == {NoCoordinates} \cup {[kind |-> "coords", pos |-> c] : c \in GeoCoords}

Pending == [state |-> "pending", outcome |-> NoCoordinates]

ImportInit ==
    /\ catalog \in ImportCatalogs
    /\ ViewIdle
    /\ FetchIdle
    /\ im_pc = "start"
    /\ file_exists \in BOOLEAN
    /\ csv_rows \in (IF file_exists THEN CsvFiles ELSE {<<>>})
    /\ row_index = 0
    /\ addresses_to_geocode = <<>>
    /\ future_to_data = <<>>
    /\ results = <<>>
    /\ save_index = 0
    /\ catalog_before = catalog
    /\ geocode_lookups = 0
    /\ reports = <<>>

\* an abort that keeps what the command has written
KeepWrites(before, current) == current

\* @transaction.atomic: an exception leaving handle rolls the table back
Rollback(before, current) == before

\* FuelStation.objects.filter(stop_id = id).first(): the place of the first
\* row with the id, 0 for None
FirstWithId(stations, id) ==
    IF \E k \in 1..Len(stations) : stations[k].id = id
    THEN CHOOSE k \in 1..Len(stations) :
             /\ stations[k].id = id
             /\ \A j \in 1..(k - 1) : stations[j].id /= id
    ELSE 0

\* station.price_per_gallon = price_per_gallon; station.save()
UpdatePrice(stations, k, price) == [stations EXCEPT ![k].price = price]

\* lines 47-51: the path is checked
OpenFile ==
    /\ im_pc = "start"
    /\ IF file_exists
       THEN /\ im_pc' = "read"
            /\ row_index' = 1
       ELSE /\ im_pc' = "done"
            /\ UNCHANGED row_index
    /\ UNCHANGED <<catalog, viewVars, fetchVars, file_exists, csv_rows,
                   addresses_to_geocode, future_to_data, results, save_index,
                   catalog_before, geocode_lookups, reports>>

\* lines 58-71: one row of the reader; float() or the save may raise, which
\* ends the command and rolls the transaction back
ReadRow ==
    /\ im_pc = "read"
    /\ row_index <= Len(csv_rows)
    /\ LET row     == csv_rows[row_index]
           station == FirstWithId(catalog, row.id)
       IN  \E db_ok \in BOOLEAN :
           IF ~row.price_ok \/ (station /= 0 /\ ~db_ok)
           THEN /\ im_pc' = "aborted"
                /\ catalog' = Rollback(catalog_before, catalog)
                /\ UNCHANGED <<row_index, addresses_to_geocode, reports>>
           ELSE IF station /= 0
           THEN /\ catalog' = UpdatePrice(catalog, station, row.price)
                /\ reports' = Append(reports, [row |-> row_index, what |-> "updated"])
                /\ row_index' = row_index + 1
                /\ UNCHANGED <<im_pc, addresses_to_geocode>>
           ELSE /\ addresses_to_geocode' = Append(addresses_to_geocode, row_index)
                /\ row_index' = row_index + 1
                /\ UNCHANGED <<im_pc, catalog, reports>>
    /\ UNCHANGED <<viewVars, fetchVars, file_exists, csv_rows, future_to_data,
                   results, save_index, catalog_before, geocode_lookups>>

\* lines 77-80: the reader is done; one future is submitted per queued row
SubmitLookups ==
    /\ im_pc = "read"
    /\ row_index > Len(csv_rows)
    /\ im_pc' = "geocode"
    /\ future_to_data' = [k \in 1..Len(addresses_to_geocode) |-> Pending]
    /\ geocode_lookups' = Len(addresses_to_geocode)
    /\ UNCHANGED <<catalog, viewVars, fetchVars, file_exists, csv_rows, row_index,
                   addresses_to_geocode, results, save_index, catalog_before,
                   reports>>

InFlight == {k \in 1..Len(future_to_data) : future_to_data[k].state = "running"}

\* a worker of the pool takes the oldest future not yet started
StartLookup ==
    /\ im_pc = "geocode"
    /\ Cardinality(InFlight) < max_concurrent_requests
    /\ \E k \in 1..Len(future_to_data) :
        /\ future_to_data[k].state = "pending"
        /\ \A j \in 1..(k - 1) : future_to_data[j].state /= "pending"
        /\ future_to_data' = [future_to_data EXCEPT ![k].state = "running"]
    /\ UNCHANGED <<catalog, viewVars, fetchVars, im_pc, file_exists, csv_rows, row_index,
                   addresses_to_geocode, results, save_index, catalog_before,
                   geocode_lookups, reports>>

\* a collection that drops a lookup that found nothing
CollectFound(res, k, outcome) ==
    IF outcome.kind = "coords"
    THEN Append(res, [queued |-> k, outcome |-> outcome])
    ELSE res

\* results.append((row, latitude, longitude))
CollectResult(res, k, outcome) == Append(res, [queued |-> k, outcome |-> outcome])

\* lines 82-86: a running lookup returns, in any order, and as_completed
\* hands its future to the loop
LookupCompletes ==
    /\ im_pc = "geocode"
    /\ \E k \in InFlight, outcome \in LookupOutcomes :
        /\ future_to_data' = [future_to_data EXCEPT ![k] =
                                  [state |-> "done", outcome |-> outcome]]
        /\ results' = CollectResult(results, k, outcome)
    /\ UNCHANGED <<catalog, viewVars, fetchVars, im_pc, file_exists, csv_rows,
                   row_index, addresses_to_geocode, save_index, catalog_before,
                   geocode_lookups, reports>>

\* the with block ends when every future is done
PoolDone ==
    /\ im_pc = "geocode"
    /\ \A k \in 1..Len(future_to_data) : future_to_data[k].state = "done"
    /\ im_pc' = "save"
    /\ save_index' = 1
    /\ UNCHANGED <<catalog, viewVars, fetchVars, file_exists, csv_rows, row_index,
                   addresses_to_geocode, future_to_data, results, catalog_before,
                   geocode_lookups, reports>>

\* if latitude and longitude: None and 0 are both false
CoordinatesFound(outcome) == outcome.kind = "coords" /\ outcome.pos /= 0

\* lines 91-106: one entry of results; int() or the create may raise
SaveResult ==
    /\ im_pc = "save"
    /\ save_index <= Len(results)
    /\ LET r   == results[save_index]
           q   == addresses_to_geocode[r.queued]
           row == csv_rows[q]
       IN  \E db_ok \in BOOLEAN :
           IF ~CoordinatesFound(r.outcome)
           THEN /\ reports' = Append(reports, [row |-> q, what |-> "skipped"])
                /\ save_index' = save_index + 1
                /\ UNCHANGED <<im_pc, catalog>>
           ELSE IF ~row.rack_ok \/ ~db_ok
           THEN /\ im_pc' = "aborted"
                /\ catalog' = Rollback(catalog_before, catalog)
                /\ UNCHANGED <<save_index, reports>>
           ELSE /\ catalog' = Append(catalog, [id |-> row.id, pos |-> r.outcome.pos,
                                               price |-> row.price])
                /\ reports' = Append(reports, [row |-> q, what |-> "added"])
                /\ save_index' = save_index + 1
                /\ UNCHANGED im_pc
    /\ UNCHANGED <<viewVars, fetchVars, file_exists, csv_rows, row_index,
                   addresses_to_geocode, future_to_data, results, catalog_before,
                   geocode_lookups>>

\* line 108: the command ends and the transaction commits
Finish ==
    /\ im_pc = "save"
    /\ save_index > Len(results)
    /\ im_pc' = "done"
    /\ UNCHANGED <<catalog, viewVars, fetchVars, file_exists, csv_rows, row_index,
                   addresses_to_geocode, future_to_data, results, save_index,
                   catalog_before, geocode_lookups, reports>>

ImportNext ==
    \/ OpenFile
    \/ ReadRow
    \/ SubmitLookups
    \/ StartLookup
    \/ LookupCompletes
    \/ PoolDone
    \/ SaveResult
    \/ Finish

SpecImport == ImportInit /\ [][ImportNext]_vars

\* the entries of results that belong to the k-th queued address
ResultsFor(k) == {i \in 1..Len(results) : results[i].queued = k}

\* the lines written to stdout about CSV row q
ReportsFor(q, what) ==
    {i \in 1..Len(reports) : reports[i].row = q /\ reports[i].what = what}

\* the entries of results whose lookup returned coordinates, in order
FoundResults == SelectSeq(results, LAMBDA r : r.outcome.kind = "coords")

\* the station the command creates for an entry of results
CreatedFrom(r) ==
    LET row == csv_rows[addresses_to_geocode[r.queued]]
    IN  [id |-> row.id, pos |-> r.outcome.pos, price |-> row.price]

C19_IdsStayUnique ==
    /\ UniqueIds(catalog_before) => UniqueIds(catalog)
    /\ \A i \in 1..Len(reports) :
         reports[i].what = "updated"
            => /\ Len(catalog) >= Len(catalog_before)
               /\ \A k \in 1..Len(catalog_before) :
                    /\ catalog[k].id = catalog_before[k].id
                    /\ catalog[k].pos = catalog_before[k].pos

\* C20: the import is all-or-nothing on error.  When handle ends with an
\* exception, at a row of the reader, a price update or a creation, the table
\* is what it was before the run; when the path does not exist the command
\* returns with the table unchanged and no lookup submitted.
C20_AllOrNothing ==
    /\ im_pc = "aborted" => catalog = catalog_before
    /\ im_pc = "done" /\ ~file_exists
        => /\ catalog = catalog_before
           /\ geocode_lookups = 0
           /\ future_to_data = <<>>
           /\ results = <<>>

\* an abort at a creation, after a price update of the same run
C20_Witness ==
    /\ im_pc = "aborted"
    /\ save_index = 1
    /\ \E i \in 1..Len(reports) :
         /\ reports[i].what = "updated"
         /\ \E k \in 1..Len(catalog_before) :
              /\ catalog_before[k].id = csv_rows[reports[i].row].id
              /\ catalog_before[k].price /= csv_rows[reports[i].row].price

=============================================================================
